---- MODULE Spec2Model ----
(***************************************************************************)
(* Model of the MMPSU v2 serial command engine (MmpsuV2Uart) together with *)
(* the packet helpers and the field catalog of mmpsu_base.py.              *)
(*                                                                         *)
(* Granularity: one step per Python statement that touches shared state    *)
(* (the lock, the serial port, the two error counters).  Packets are       *)
(* sequences of byte values; Python index i is TLA+ index i+1.             *)
(***************************************************************************)
EXTENDS Integers, Sequences, FiniteSets, TLC

(* ------------------------------------------------------------------ *)
(* Bounds of the model                                                 *)
(* ------------------------------------------------------------------ *)
NumThreads == 2
MaxCalls == 2

Threads == 1..NumThreads
NoThread == 0

(* ------------------------------------------------------------------ *)
(* Protocol constants (mmpsu_base.py)                                  *)
(* ------------------------------------------------------------------ *)
START_BYTE == 165
HDDR_SIZE == 4
CMD_IND == 1
PAYLOAD_LEN_L_IND == 2
PAYLOAD_LEN_H_IND == 3
CRC_SIZE == 2

CMD_NONE == 0
CMD_READ == 1
CMD_WRITE == 2
CMD_READ_ALL == 3
CMD_TEST_COMMS == 4
CMD_ERROR == 5

ERR_NONE == 0
ERR_CRC == 1
ERR_UNKNOWN_CMD == 2

MMPSU_ERR_CODES == {ERR_NONE, ERR_CRC, ERR_UNKNOWN_CMD}

(* ------------------------------------------------------------------ *)
(* Byte-sequence helpers standing for Python indexing and slicing      *)
(* ------------------------------------------------------------------ *)
Min(a, b) == IF a < b THEN a ELSE b

\* packet[i] with a Python (0-based) index; the caller checks the range
At(p, i) == p[i + 1]

\* packet[a:b]: Python slices never raise, they clip to the sequence
Slice(p, a, b) == SubSeq(p, a + 1, Min(b, Len(p)))

Zeros(n) == [i \in 1..n |-> 0]

(* ------------------------------------------------------------------ *)
(* Field catalog (MMPSU_V2_REGS) and the two indexes built from it     *)
(* ------------------------------------------------------------------ *)
FD(n, r, t, w) == [name |-> n, reg |-> r, field_type |-> t, writable |-> w]

MMPSU_V2_REGS ==
  << FD("OUTPUT_ENABLED", 0, "bool", TRUE),
     FD("VOUT_MEASURED", 1, "int", FALSE),
     FD("VOUT_SETPOINT", 2, "int", TRUE),
     FD("PHASES_PRESENT", 3, "int", FALSE),
     FD("PHASES_ENABLED", 4, "int", FALSE),
     FD("PHASE_A_DUTY_CYCLE", 5, "int", FALSE),
     FD("PHASE_A_CURRENT", 6, "int", FALSE),
     FD("PHASE_A_CURRENT_LIMIT", 7, "int", TRUE),
     FD("PHASE_B_DUTY_CYCLE", 9, "int", FALSE),
     FD("PHASE_A_TEMP", 8, "float", FALSE),
     FD("PHASE_B_CURRENT", 10, "int", FALSE),
     FD("PHASE_B_CURRENT_LIMIT", 11, "int", TRUE),
     FD("PHASE_B_TEMP", 12, "float", FALSE),
     FD("PHASE_C_DUTY_CYCLE", 13, "int", FALSE),
     FD("PHASE_C_CURRENT", 14, "int", FALSE),
     FD("PHASE_C_CURRENT_LIMIT", 15, "int", TRUE),
     FD("PHASE_C_TEMP", 16, "float", FALSE),
     FD("PHASE_D_DUTY_CYCLE", 17, "int", FALSE),
     FD("PHASE_D_CURRENT", 18, "int", FALSE),
     FD("PHASE_D_CURRENT_LIMIT", 19, "int", TRUE),
     FD("PHASE_D_TEMP", 20, "float", FALSE),
     FD("PHASE_E_DUTY_CYCLE", 21, "int", FALSE),
     FD("PHASE_E_CURRENT", 22, "int", FALSE),
     FD("PHASE_E_CURRENT_LIMIT", 23, "int", TRUE),
     FD("PHASE_E_TEMP", 24, "float", FALSE),
     FD("PHASE_F_DUTY_CYCLE", 25, "int", FALSE),
     FD("PHASE_F_CURRENT", 26, "int", FALSE),
     FD("PHASE_F_CURRENT_LIMIT", 27, "int", TRUE),
     FD("PHASE_F_TEMP", 28, "float", FALSE),
     FD("PHASES_IN_OVERTEMP", 29, "int", FALSE),
     FD("DEBUG_MODE", 30, "int", TRUE),
     FD("DEVELOPER_MODE", 31, "bool", TRUE),
     FD("SYSTEM_STATE", 32, "int", FALSE),
     FD("VOLTAGE_KP", 33, "int", FALSE),
     FD("VOLTAGE_KI", 34, "int", FALSE),
     FD("CURRENT_KP", 35, "int", FALSE),
     FD("CURRENT_KI", 36, "int", FALSE),
     FD("COMMS_ERROR_COUNT", 37, "int", TRUE),
     FD("MANUAL_MODE", 38, "bool", TRUE),
     FD("PHASE_COUNT_REQUESTED", 39, "int", TRUE) >>

\* a dict comprehension keeps the LAST entry for a repeated key
LastIndex(S) == CHOOSE i \in S : \A j \in S : j <= i

RegNames == {MMPSU_V2_REGS[i].name : i \in DOMAIN MMPSU_V2_REGS}
RegNums == {MMPSU_V2_REGS[i].reg : i \in DOMAIN MMPSU_V2_REGS}

regmap ==
  [n \in RegNames |->
     MMPSU_V2_REGS[LastIndex({i \in DOMAIN MMPSU_V2_REGS : MMPSU_V2_REGS[i].name = n})]]

regmap_by_num_by_position == [r \in RegNums |-> MMPSU_V2_REGS[r + 1]]

regmap_by_num ==
  [r \in RegNums |->
     MMPSU_V2_REGS[LastIndex({i \in DOMAIN MMPSU_V2_REGS : MMPSU_V2_REGS[i].reg = r})]]

(* ------------------------------------------------------------------ *)
(* Packet helpers (mmpsu_base.py)                                      *)
(* ------------------------------------------------------------------ *)
\* get_payload_size indexes bytes 2 and 3: IndexError on a shorter buffer
get_payload_size_raises(packet) == Len(packet) <= PAYLOAD_LEN_H_IND

get_payload_size(packet) ==
  At(packet, PAYLOAD_LEN_L_IND) + At(packet, PAYLOAD_LEN_H_IND) * 256

get_packet_size(packet) == get_payload_size(packet) + HDDR_SIZE + CRC_SIZE

set_packet_size_low_byte_only(packet, length) ==
  [packet EXCEPT ![PAYLOAD_LEN_L_IND + 1] = length % 256]

set_packet_size(packet, length) ==
  [packet EXCEPT ![PAYLOAD_LEN_L_IND + 1] = length % 256,
                 ![PAYLOAD_LEN_H_IND + 1] = (length \div 256) % 256]

\* get_checksum indexes bytes ind and ind+1: IndexError when they are missing
get_checksum_raises(packet) ==
  Len(packet) <= HDDR_SIZE + get_payload_size(packet) + 1

get_checksum(packet) ==
  LET ind == HDDR_SIZE + get_payload_size(packet)
  IN  At(packet, ind) * 256 + At(packet, ind + 1)

(* ------------------------------------------------------------------ *)
(* Checksum (MmpsuV2Uart)                                              *)
(* ------------------------------------------------------------------ *)
compute_crc(payload) == 0

add_crc(packet) ==
  LET chksum_ind == HDDR_SIZE + get_payload_size(packet)
      chksum == compute_crc(Slice(packet, HDDR_SIZE, chksum_ind))
  IN  [packet EXCEPT ![chksum_ind + 1] = (chksum \div 256) % 256,
                     ![chksum_ind + 2] = chksum % 256]

check_crc(packet) ==
  LET rx_chk == get_checksum(packet)
      chksum_ind == HDDR_SIZE + get_payload_size(packet)
      expect_chk == compute_crc(Slice(packet, HDDR_SIZE, chksum_ind))
  IN  rx_chk = expect_chk

(* ------------------------------------------------------------------ *)
(* Field decoding (FieldData.unpack_from) and packing (pack_into)      *)
(* ------------------------------------------------------------------ *)
\* four little-endian bytes as a signed 32-bit integer
Int32BE(b0, b1, b2, b3) ==
  b3 + 256 * b2 + 65536 * b1 + 16777216 * (IF b0 >= 128 THEN b0 - 256 ELSE b0)
Int32LE(b0, b1, b2, b3) ==
  b0 + 256 * b1 + 65536 * b2 + 16777216 * (IF b3 >= 128 THEN b3 - 256 ELSE b3)

\* a decoded value: its Python type and its number; a float is named by the
\* 32-bit pattern struct decodes it from
Value(t, n) == [ty |-> t, v |-> n]

\* struct.unpack_from raises struct.error when fewer than 4 bytes remain
unpack_from_raises(fd, src, offset) ==
  /\ fd.field_type \in {"int", "float", "bool", "bytes"}
  /\ Len(src) < offset + 4

unpack_from(fd, src, offset) ==
  LET word == Int32LE(At(src, offset), At(src, offset + 1),
                      At(src, offset + 2), At(src, offset + 3))
  IN  IF fd.field_type = "int" THEN Value("int", word)
      ELSE IF fd.field_type = "float" THEN Value("float", word)
      ELSE IF fd.field_type = "bool"
        THEN Value("bool", IF At(src, offset) # 0 THEN 1 ELSE 0)
      ELSE IF fd.field_type = "bytes" THEN Value("bytes", word)
      ELSE Value("int", 0)

\* struct.calcsize(fmt_str) of the format pack_into chooses: 'cf' is in native
\* alignment, the float starts at offset 4 and the unit takes 8 bytes; a bytes
\* value of n bytes takes 1 + n
calcsize(fd, nbytes) ==
  IF fd.field_type = "int" THEN 5
  ELSE IF fd.field_type = "float" THEN 8
  ELSE IF fd.field_type = "bool" THEN 5
  ELSE IF fd.field_type = "bytes" THEN 1 + nbytes
  ELSE 0

\* pack_into hands self.reg, an IntEnum member, to the struct format 'c', which
\* accepts only a bytes object of length 1: struct.error for every known type.
\* The result is the number of bytes packed, or -1 for the raised struct.error.
pack_into_packs(fd, value, offset) ==
  IF fd.field_type \in {"int", "float", "bool", "bytes"} THEN calcsize(fd, 4) ELSE 0

pack_into(fd, value, offset) ==
  IF fd.field_type \in {"int", "float", "bool", "bytes"} THEN -1 ELSE 0

\* dst after pack_into: struct.pack_into raises before it writes a byte, and an
\* unrecognized type returns at once, so no call changes the buffer
pack_into_dst(fd, dst, value, offset) == dst

(* ------------------------------------------------------------------ *)
(* Results of an operation as the caller sees them                     *)
(* ------------------------------------------------------------------ *)
\* ret: "True" / "False" (bool operations), "dict" (read operations, with the
\* mapping in map), or the name of the exception that left the call
Result(r, m) == [ret |-> r, map |-> m]
NoResult == Result("none", {})
Exceptions == {"IndexError", "KeyError", "struct.error"}

(* ------------------------------------------------------------------ *)
(* Reply validation (MmpsuV2Uart._verify_packet)                       *)
(* ------------------------------------------------------------------ *)
Verdict(r, a, b) == [ret |-> r, rx_inc |-> a, mm_inc |-> b]

too_short_of_header(rx_packet) == Len(rx_packet) < HDDR_SIZE
too_short(rx_packet) == Len(rx_packet) < HDDR_SIZE + CRC_SIZE

crc_failure == Verdict("False", 1, 0)

verify_cmd_unknown_counted(tx_packet, rx_packet) ==
  IF At(rx_packet, CMD_IND) # At(tx_packet, CMD_IND)
    THEN IF At(rx_packet, CMD_IND) = CMD_ERROR
           THEN IF At(rx_packet, HDDR_SIZE) \notin MMPSU_ERR_CODES
                  THEN Verdict("KeyError", 0, 0)
                ELSE IF At(rx_packet, HDDR_SIZE) = ERR_UNKNOWN_CMD
                  THEN Verdict("False", 0, 1)
                ELSE Verdict("False", 0, 0)
         ELSE Verdict("False", 0, 0)
  ELSE Verdict("True", 0, 0)

verify_cmd(tx_packet, rx_packet) ==
  IF At(rx_packet, CMD_IND) # At(tx_packet, CMD_IND)
    THEN IF At(rx_packet, CMD_IND) = CMD_ERROR
           THEN IF At(rx_packet, HDDR_SIZE) \notin MMPSU_ERR_CODES
                  THEN Verdict("KeyError", 0, 0)
                ELSE IF At(rx_packet, HDDR_SIZE) = ERR_CRC
                  THEN Verdict("False", 0, 1)
                ELSE Verdict("False", 0, 0)
         ELSE Verdict("False", 0, 0)
  ELSE Verdict("True", 0, 0)

verify_packet_cmd_first(tx_packet, rx_packet) ==
  IF too_short(rx_packet) THEN Verdict("False", 0, 0)
  ELSE IF get_checksum_raises(rx_packet) THEN Verdict("IndexError", 0, 0)
  ELSE IF verify_cmd(tx_packet, rx_packet).ret # "True" THEN verify_cmd(tx_packet, rx_packet)
  ELSE IF ~check_crc(rx_packet) THEN crc_failure
  ELSE Verdict("True", 0, 0)

verify_packet(tx_packet, rx_packet) ==
  IF too_short(rx_packet) THEN Verdict("False", 0, 0)
  ELSE IF get_checksum_raises(rx_packet) THEN Verdict("IndexError", 0, 0)
  ELSE IF ~check_crc(rx_packet) THEN crc_failure
  ELSE verify_cmd(tx_packet, rx_packet)

(* ------------------------------------------------------------------ *)
(* Reply decoding (MmpsuV2Uart._parse_read_packet)                     *)
(* ------------------------------------------------------------------ *)
RECURSIVE parse_units(_, _, _)
parse_units(payload, i, retval) ==
  IF i >= Len(payload) THEN Result("dict", retval)
  ELSE LET regnum == At(payload, i)
       IN  IF regnum \notin RegNums THEN Result("KeyError", {})
           ELSE IF unpack_from_raises(regmap_by_num[regnum], payload, i + 1)
             THEN Result("struct.error", {})
           ELSE LET fd == regmap_by_num[regnum]
                    val == unpack_from(fd, payload, i + 1)
                IN  parse_units(payload, i + 5,
                      {e \in retval : e[1] # fd.name} \cup {<<fd.name, val>>})

parse_read_packet(packet) ==
  LET payload_len == get_payload_size(packet)
      payload == Slice(packet, HDDR_SIZE, HDDR_SIZE + payload_len)
  IN  parse_units(payload, 0, {})

(* ------------------------------------------------------------------ *)
(* Request frames built by the four operations before the lock is      *)
(* taken (test_comms, write_fields, read_fields, read_all_fields)      *)
(* ------------------------------------------------------------------ *)
Blank(total_len, cmd) ==
  [Zeros(total_len) EXCEPT ![1] = START_BYTE, ![CMD_IND + 1] = cmd]

test_comms_packet ==
  LET payload_len == 4
      total_len == HDDR_SIZE + payload_len + CRC_SIZE
      packet == [Blank(total_len, CMD_TEST_COMMS) EXCEPT
                   ![HDDR_SIZE + 1] = 222, ![HDDR_SIZE + 2] = 173,
                   ![HDDR_SIZE + 3] = 190, ![HDDR_SIZE + 4] = 239]
  IN  add_crc(set_packet_size(packet, payload_len))

\* self._regmap[regstr] raises KeyError for a name the catalog lacks
read_fields_raises(fields) == \E i \in DOMAIN fields : fields[i] \notin RegNames

read_fields_packet(fields) ==
  LET payload_len == Len(fields)
      total_len == HDDR_SIZE + payload_len + CRC_SIZE
      packet == set_packet_size(Blank(total_len, CMD_READ), payload_len)
      filled == [i \in 1..total_len |->
                   IF i > HDDR_SIZE /\ i <= HDDR_SIZE + payload_len
                     THEN regmap[fields[i - HDDR_SIZE]].reg
                     ELSE packet[i]]
  IN  add_crc(filled)

read_all_fields_packet ==
  add_crc(set_packet_size(Blank(HDDR_SIZE + CRC_SIZE, CMD_READ_ALL), 0))

\* the packing loop of write_fields: the final offset, or -1 when pack_into
\* raised struct.error, or -2 when self._regmap[field] raised KeyError
RECURSIVE pack_all(_, _, _)
pack_all(field_values, i, offset) ==
  IF i > Len(field_values) THEN offset
  ELSE IF field_values[i].name \notin RegNames THEN -2
  ELSE LET n == pack_into(regmap[field_values[i].name], field_values[i].value, offset)
       IN  IF n = -1 THEN -1 ELSE pack_all(field_values, i + 1, offset + n)

\* the unit bytes never reach the buffer (pack_into raises before it writes),
\* so a frame that is built has an all-zero payload region
write_fields_packet(field_values) ==
  LET payload_len == 5 * Len(field_values)
      total_len == HDDR_SIZE + payload_len + CRC_SIZE
  IN  add_crc(set_packet_size(Blank(total_len, CMD_WRITE), payload_len))

\* what the part of an operation before "with self._uart_lock" ends in:
\* ret = "go" with the frame to send, or the early return / exception
Built(r, pk) == [ret |-> r, packet |-> pk]

Build(o, arg) ==
  IF o = "test_comms" THEN Built("go", test_comms_packet)
  ELSE IF o = "read_all_fields" THEN Built("go", read_all_fields_packet)
  ELSE IF o = "read_fields"
    THEN IF read_fields_raises(arg) THEN Built("KeyError", <<>>)
         ELSE Built("go", read_fields_packet(arg))
  ELSE LET offset == pack_all(arg, 1, HDDR_SIZE)
       IN  IF offset = -2 THEN Built("KeyError", <<>>)
           ELSE IF offset = -1 THEN Built("struct.error", <<>>)
           ELSE IF offset # HDDR_SIZE + 5 * Len(arg) THEN Built("False", <<>>)
           ELSE Built("go", write_fields_packet(arg))

(* ------------------------------------------------------------------ *)
(* What an operation returns once its reply went through validation    *)
(* ------------------------------------------------------------------ *)
IsRead(o) == o \in {"read_fields", "read_all_fields"}

\* "return False" / "return {}" of the operation o
Failure(o) == IF IsRead(o) THEN Result("dict", {}) ELSE Result("False", {})

echo_matches(packet, rpy) ==
  Slice(rpy, HDDR_SIZE, HDDR_SIZE + get_payload_size(rpy))
    = Slice(packet, HDDR_SIZE, HDDR_SIZE + get_payload_size(packet))

Outcome(o, tx_packet, rpy) ==
  LET v == verify_packet(tx_packet, rpy)
  IN  IF v.ret \in Exceptions THEN Result(v.ret, {})
      ELSE IF v.ret = "False" THEN Failure(o)
      ELSE IF o = "test_comms"
        THEN IF echo_matches(tx_packet, rpy) THEN Result("True", {})
             ELSE Result("False", {})
      ELSE IF o = "write_fields" THEN Result("True", {})
      ELSE parse_read_packet(rpy)

(* ------------------------------------------------------------------ *)
(* Inputs: the calls made by the caller threads and what the device    *)
(* puts on the line in answer to a request                             *)
(* ------------------------------------------------------------------ *)
Ops == {"test_comms", "write_fields", "read_fields", "read_all_fields"}

FV(n, x) == [name |-> n, value |-> x]

\* V_IN is a field of the node's STATUS_FIELDS that the catalog lacks
Inputs(o) ==
  IF o = "read_fields" THEN {<<"VOUT_SETPOINT">>, <<"V_IN">>}
  ELSE IF o = "write_fields" THEN {<<>>, <<FV("OUTPUT_ENABLED", 1)>>}
  ELSE {<<>>}

Frame(cmd, payload, chk) ==
  <<START_BYTE, cmd, Len(payload) % 256, Len(payload) \div 256>> \o payload \o chk

GoodChk == <<0, 0>>
BadChk == <<0, 1>>

ReplyPayloads(cmd) ==
  IF cmd = CMD_TEST_COMMS THEN {<<222, 173, 190, 239>>, <<222, 173, 190, 238>>}
  ELSE IF cmd \in {CMD_READ, CMD_READ_ALL}
    THEN {<<2, 224, 46, 0, 0>>, <<40, 0, 0, 0, 0>>, <<>>}
  ELSE {<<>>}

\* frames a device may answer the request tx_packet with
DeviceFrames(tx_packet) ==
  {Frame(At(tx_packet, CMD_IND), p, k) :
       p \in ReplyPayloads(At(tx_packet, CMD_IND)), k \in {GoodChk, BadChk}}
    \cup {Frame(CMD_ERROR, <<e>>, GoodChk) : e \in {ERR_NONE, ERR_CRC, ERR_UNKNOWN_CMD, 3}}
    \cup {Frame(CMD_ERROR, <<ERR_CRC>>, BadChk)}
    \cup {Frame(CMD_NONE, <<>>, GoodChk)}

\* an answer: the bytes that arrive before the reads time out, and the bytes
\* that arrive after them
Answer(a, b) == [now |-> a, late |-> b]

\* every frame, cut off by the timeout after any number of bytes; the rest is lost
CutAnswers(tx_packet) ==
  UNION {{Answer(SubSeq(f, 1, k), <<>>) : k \in 0..Len(f)} : f \in DeviceFrames(tx_packet)}

\* no answer, a whole frame, or an ERROR frame cut off inside its payload or
\* inside its checksum
WholeAnswers(tx_packet) ==
  {Answer(<<>>, <<>>)}
    \cup {Answer(Frame(At(tx_packet, CMD_IND), p, GoodChk), <<>>) :
            p \in ReplyPayloads(At(tx_packet, CMD_IND))}
    \cup {Answer(Frame(At(tx_packet, CMD_IND), <<>>, BadChk), <<>>),
          Answer(Frame(CMD_ERROR, <<ERR_CRC>>, GoodChk), <<>>),
          Answer(Frame(CMD_ERROR, <<3>>, GoodChk), <<>>),
          Answer(Frame(CMD_NONE, <<>>, GoodChk), <<>>),
          Answer(<<START_BYTE, CMD_ERROR, 1, 0, ERR_CRC>>, <<>>),
          Answer(<<START_BYTE, CMD_ERROR, 1, 0, ERR_CRC, 0>>, <<>>)}

\* the device's well-formed reply to the request, all of it in time, all of it
\* after the 0.25 s timeout of the reads, or the header in time and the rest late
LateAnswers(tx_packet) ==
  UNION {{Answer(SubSeq(f, 1, k), SubSeq(f, k + 1, Len(f))) : k \in {0, HDDR_SIZE, Len(f)}} :
           f \in {Frame(At(tx_packet, CMD_IND), p, GoodChk) :
                    p \in ReplyPayloads(At(tx_packet, CMD_IND))}}

(* ------------------------------------------------------------------ *)
(* The failure taxonomy a reply falls under (what the transport        *)
(* delivered, judged against the wire format)                          *)
(* ------------------------------------------------------------------ *)
Incomplete(rx) == rx = <<>> \/ Len(rx) < get_packet_size(rx)

Classify(tx, rx) ==
  IF Incomplete(rx) THEN "Timeout"
  ELSE IF get_checksum(rx) # compute_crc(Slice(rx, HDDR_SIZE, HDDR_SIZE + get_payload_size(rx)))
    THEN "ChecksumError"
  ELSE IF At(rx, CMD_IND) = At(tx, CMD_IND) THEN "Accepted"
  ELSE IF At(rx, CMD_IND) = CMD_ERROR THEN "DeviceError"
  ELSE "UnexpectedReply"

\* the error code of a DeviceError reply
ErrorCode(tx, rx) ==
  IF Classify(tx, rx) = "DeviceError" THEN At(rx, HDDR_SIZE) ELSE 0

\* the command byte of a reply, -1 when the reply has none
ReplyCmd(rx) == IF Len(rx) > CMD_IND THEN At(rx, CMD_IND) ELSE -1

\* a call that ended: the taxonomy, command byte, error code and length of the
\* reply it validated ("Build" when it ended before sending), and its result
Ended(k, m, c, n, r) ==
  [kind |-> k, cmd |-> m, code |-> c, len |-> n, result |-> r]
NoneEnded == Ended("none", -1, 0, 0, NoResult)

(* ------------------------------------------------------------------ *)
(* State                                                               *)
(* ------------------------------------------------------------------ *)
VARIABLES
  pc,                   \* where each caller thread is inside its operation
  op,                   \* the operation each thread is running
  packet,               \* the request frame of the thread's transaction
  rpy,                  \* what _read_packet has read so far
  last,                 \* history: the call that ended last
  uart_lock,            \* self._uart_lock: the holder, or NoThread
  rx_crc_err_count,     \* self._rx_crc_err_count
  mmpsu_crc_err_count,  \* self._mmpsu_crc_err_count
  rxbuf,                \* bytes in the serial port's input buffer
  pending,              \* bytes of the device that arrive late
  calls,                \* operations invoked so far
  wire_owner,           \* history: thread of the transaction on the wire
  interleaved,          \* history: a transport call cut into another transaction
  io,                   \* history: the transport calls of each thread's invocation
  answered,             \* history: the bytes the device sent for each thread's request
  rd_pc,                \* the counter-reading thread: "idle", "rx" or "mm"
  retval,               \* the counter reader's local retval
  rx_incs, mm_incs,     \* history: failed validations that incremented each counter
  rx_sum, mm_sum,       \* history: sum of the values the counter reads returned
  rx_since, mm_since,   \* history: increments since the counter was last cleared
  probe,                \* a function applied on its own: name, arguments, result
  node_pc,              \* where each callback of the host node is
  mmpsu_lock,           \* MmpsuV2Node._mmpsu_lock: the holder, or NoCallback
  request,              \* the request each callback was invoked with
  written               \* history: the last write_field call of a callback

vars == <<pc, op, packet, rpy, last, uart_lock, rx_crc_err_count,
          mmpsu_crc_err_count, rxbuf, pending, calls, wire_owner, interleaved, io,
          answered,
          rd_pc, retval, rx_incs, mm_incs, rx_sum, mm_sum, rx_since, mm_since,
          probe, node_pc, mmpsu_lock, request, written>>

engine == <<pc, op, packet, rpy, last, uart_lock, calls>>
port == <<rxbuf, pending>>
wire == <<wire_owner, interleaved, io, answered>>
counters == <<rx_crc_err_count, mmpsu_crc_err_count, rx_incs, mm_incs,
              rx_since, mm_since>>
reader == <<rd_pc, retval, rx_sum, mm_sum>>
node == <<node_pc, mmpsu_lock, request, written>>

\* the callbacks MmpsuV2Node registers that call the engine
Callbacks == {"status_timer", "set_output_enabled", "set_output_voltage"}
NoCallback == "none"

\* a Python float: a number, counted in units of 0.1 mV (1 V = 10000), or one
\* of nan, inf, -inf
F(k, x) == [k |-> k, v |-> x]
NoRequest == F("none", 0)

\* a write_field call: the callback, the request it served, the field and value
Wrote(c, r, n, x) == [cb |-> c, req |-> r, name |-> n, value |-> x]
NoWrite == Wrote(NoCallback, NoRequest, "", 0)

Probe(f, a, d, r) == [fn |-> f, arg |-> a, done |-> d, out |-> r]
NoProbe == Probe("none", <<>>, FALSE, <<>>)

\* the engine after __init__: nothing sent, lock free, both counters 0
EngineInit ==
  /\ pc = [t \in Threads |-> "idle"]
  /\ op = [t \in Threads |-> "none"]
  /\ packet = [t \in Threads |-> <<>>]
  /\ rpy = [t \in Threads |-> <<>>]
  /\ last = NoneEnded
  /\ uart_lock = NoThread
  /\ rx_crc_err_count = 0
  /\ mmpsu_crc_err_count = 0
  /\ rxbuf = <<>>
  /\ pending = <<>>
  /\ calls = 0
  /\ wire_owner = NoThread
  /\ interleaved = FALSE
  /\ io = [t \in Threads |-> <<>>]
  /\ answered = [t \in Threads |-> <<>>]
  /\ rd_pc = "idle"
  /\ retval = 0
  /\ rx_incs = 0 /\ mm_incs = 0
  /\ rx_sum = 0 /\ mm_sum = 0
  /\ rx_since = 0 /\ mm_since = 0
  /\ node_pc = [c \in Callbacks |-> "idle"]
  /\ mmpsu_lock = NoCallback
  /\ request = [c \in Callbacks |-> NoRequest]
  /\ written = NoWrite

Init == EngineInit /\ probe = NoProbe

(* ------------------------------------------------------------------ *)
(* Caller threads: one operation of MmpsuV2Uart                        *)
(* ------------------------------------------------------------------ *)
\* the call, up to "with self._uart_lock": the request frame is built, or the
\* call ends at once with the early return or the exception of the build
Call(t) ==
  /\ pc[t] = "idle"
  /\ calls < MaxCalls
  /\ \E o \in Ops : \E arg \in Inputs(o) :
       LET b == Build(o, arg)
       IN  IF b.ret = "go"
             THEN /\ pc' = [pc EXCEPT ![t] = "acquire"]
                  /\ op' = [op EXCEPT ![t] = o]
                  /\ packet' = [packet EXCEPT ![t] = b.packet]
                  /\ last' = last
             ELSE /\ last' = Ended("Build", -1, 0, 0, Result(b.ret, {}))
                  /\ UNCHANGED <<pc, op, packet>>
  /\ calls' = calls + 1
  /\ UNCHANGED <<rpy, uart_lock, port, wire, counters, reader, probe, node>>

\* threading.Lock: acquire blocks while another thread holds the lock
lock_free_ignored == TRUE
lock_free == uart_lock = NoThread

Acquire(t) ==
  /\ pc[t] = "acquire"
  /\ lock_free
  /\ uart_lock' = t
  /\ pc' = [pc EXCEPT ![t] = "send"]
  /\ UNCHANGED <<op, packet, rpy, last, calls, port, wire, counters, reader, probe, node>>

\* the lock once the with block of its holder is left with ret (a return value
\* or a raised exception): __exit__ releases it either way
with_exit_raise_leaks(holder, ret) == IF ret \in Exceptions THEN holder ELSE NoThread
with_exit(holder, ret) == NoThread

\* history: a transport call by t while another thread's transaction is on the wire
Touch(t) ==
  /\ interleaved' = (interleaved \/ wire_owner \notin {NoThread, t})
  /\ wire_owner' = t

\* history: one call of the serial port, the size asked for and the bytes moved
Io(c, n, g) == [call |-> c, size |-> n, got |-> g]
Log(t, e) == io' = [io EXCEPT ![t] = Append(@, e)]

\* _send_packet: the frame goes out whole, and the device answers with one of
\* answers
SendTo(t, answers) ==
  /\ pc[t] = "send"
  /\ IF get_packet_size(packet[t]) < Len(packet[t])
       THEN /\ pc' = [pc EXCEPT ![t] = "idle"]
            /\ op' = [op EXCEPT ![t] = "none"]
            /\ packet' = [packet EXCEPT ![t] = <<>>]
            /\ last' = Ended("Unsent", -1, 0, 0, Failure(op[t]))
            /\ uart_lock' = NoThread
            /\ UNCHANGED <<port, wire>>
       ELSE /\ \E a \in answers :
                 /\ rxbuf' = rxbuf \o a.now
                 /\ pending' = pending \o a.late
                 /\ answered' = [answered EXCEPT ![t] = a.now \o a.late]
            /\ pc' = [pc EXCEPT ![t] = "read_hdr"]
            /\ Touch(t)
            /\ Log(t, Io("write", get_packet_size(packet[t]),
                         Min(get_packet_size(packet[t]), Len(packet[t]))))
            /\ UNCHANGED <<op, packet, last, uart_lock>>
  /\ UNCHANGED <<rpy, calls, counters, reader, probe, node>>

Send(t) == SendTo(t, WholeAnswers(packet[t]))
SendCut(t) == SendTo(t, CutAnswers(packet[t]))
SendLate(t) == SendTo(t, LateAnswers(packet[t]))

\* serial read(n): n bytes once they are there, else what arrived by the timeout
ser_read(n) == SubSeq(rxbuf, 1, Min(n, Len(rxbuf)))
ser_rest(n) == SubSeq(rxbuf, Min(n, Len(rxbuf)) + 1, Len(rxbuf))

\* _read_packet, first stage: the header, an empty reply when it is short
ReadHeader(t) ==
  /\ pc[t] = "read_hdr"
  /\ LET hddr == ser_read(HDDR_SIZE)
     IN  IF get_payload_size_raises(hddr)
           THEN /\ rpy' = [rpy EXCEPT ![t] = <<>>]
                /\ pc' = [pc EXCEPT ![t] = "verify"]
           ELSE /\ rpy' = [rpy EXCEPT ![t] = hddr]
                /\ pc' = [pc EXCEPT ![t] = "read_body"]
  /\ rxbuf' = ser_rest(HDDR_SIZE)
  /\ Touch(t)
  /\ Log(t, Io("read", HDDR_SIZE, Len(ser_read(HDDR_SIZE))))
  /\ UNCHANGED answered
  /\ UNCHANGED <<op, packet, last, uart_lock, calls, pending, counters, reader, probe, node>>

\* the size of _read_packet's second read, from the header
body_size_without_checksum(hddr) == get_payload_size(hddr)
body_size(hddr) == get_payload_size(hddr) + CRC_SIZE

\* _read_packet, second stage: payload and checksum
ReadBody(t) ==
  /\ pc[t] = "read_body"
  /\ LET n == body_size(rpy[t])
     IN  /\ rpy' = [rpy EXCEPT ![t] = rpy[t] \o ser_read(n)]
         /\ rxbuf' = ser_rest(n)
         /\ Log(t, Io("read", n, Len(ser_read(n))))
  /\ pc' = [pc EXCEPT ![t] = "verify"]
  /\ Touch(t)
  /\ UNCHANGED answered
  /\ UNCHANGED <<op, packet, last, uart_lock, calls, pending, counters, reader, probe, node>>

\* _verify_packet, the operation's own check or decoding, and the end of the
\* with block (the lock is released on return and on exception alike)
Verify(t) ==
  /\ pc[t] = "verify"
  /\ LET v == verify_packet(packet[t], rpy[t])
     IN  /\ rx_crc_err_count' = rx_crc_err_count + v.rx_inc
         /\ mmpsu_crc_err_count' = mmpsu_crc_err_count + v.mm_inc
         /\ rx_incs' = rx_incs + v.rx_inc
         /\ mm_incs' = mm_incs + v.mm_inc
         /\ rx_since' = rx_since + v.rx_inc
         /\ mm_since' = mm_since + v.mm_inc
  /\ last' = Ended(Classify(packet[t], rpy[t]), ReplyCmd(rpy[t]),
                   ErrorCode(packet[t], rpy[t]), Len(rpy[t]),
                   Outcome(op[t], packet[t], rpy[t]))
  /\ uart_lock' = with_exit(t, Outcome(op[t], packet[t], rpy[t]).ret)
  /\ wire_owner' = NoThread
  /\ io' = [io EXCEPT ![t] = <<>>]
  /\ answered' = [answered EXCEPT ![t] = <<>>]
  /\ pc' = [pc EXCEPT ![t] = "idle"]
  /\ op' = [op EXCEPT ![t] = "none"]
  /\ packet' = [packet EXCEPT ![t] = <<>>]
  /\ rpy' = [rpy EXCEPT ![t] = <<>>]
  /\ UNCHANGED <<calls, port, interleaved, reader, probe, node>>

(* ------------------------------------------------------------------ *)
(* The line                                                            *)
(* ------------------------------------------------------------------ *)
\* the late bytes of the device arrive in the input buffer
Deliver ==
  /\ pending # <<>>
  /\ rxbuf' = rxbuf \o pending
  /\ pending' = <<>>
  /\ UNCHANGED <<engine, wire, counters, reader, probe, node>>

(* ------------------------------------------------------------------ *)
(* The counter properties rx_crc_err_count and mmpsu_crc_err_count,    *)
(* read by a thread of the host: two statements, no lock               *)
(* ------------------------------------------------------------------ *)
\* "self._rx_crc_err_count = 0": the counter after the read
clear_on_read_skipped(count) == count
clear_on_read(count) == 0

RxLoad ==
  /\ rd_pc = "idle"
  /\ retval' = rx_crc_err_count
  /\ rd_pc' = "rx"
  /\ UNCHANGED <<engine, port, wire, probe, node, counters, rx_sum, mm_sum>>

RxClear ==
  /\ rd_pc = "rx"
  /\ rx_crc_err_count' = clear_on_read(rx_crc_err_count)
  /\ rx_since' = 0
  /\ rx_sum' = rx_sum + retval
  /\ rd_pc' = "idle"
  /\ UNCHANGED <<engine, port, wire, probe, node, mmpsu_crc_err_count, rx_incs, mm_incs,
                 mm_since, retval, mm_sum>>

MmLoad ==
  /\ rd_pc = "idle"
  /\ retval' = mmpsu_crc_err_count
  /\ rd_pc' = "mm"
  /\ UNCHANGED <<engine, port, wire, probe, node, counters, rx_sum, mm_sum>>

MmClear ==
  /\ rd_pc = "mm"
  /\ mmpsu_crc_err_count' = clear_on_read(mmpsu_crc_err_count)
  /\ mm_since' = 0
  /\ mm_sum' = mm_sum + retval
  /\ rd_pc' = "idle"
  /\ UNCHANGED <<engine, port, wire, probe, node, rx_crc_err_count, rx_incs, mm_incs,
                 rx_since, retval, rx_sum>>

(* ------------------------------------------------------------------ *)
(* Specifications                                                      *)
(* ------------------------------------------------------------------ *)
\* caller threads contending for the engine and a thread reading the counters
Next ==
  \/ \E t \in Threads : Call(t)
  \/ \E t \in Threads : Acquire(t)
  \/ \E t \in Threads : Send(t)
  \/ \E t \in Threads : ReadHeader(t)
  \/ \E t \in Threads : ReadBody(t)
  \/ \E t \in Threads : Verify(t)
  \/ RxLoad
  \/ RxClear
  \/ MmLoad
  \/ MmClear

Spec == Init /\ [][Next]_vars

\* a thread inside an operation keeps running: a free lock is taken, the write
\* returns, and each serial read returns within its timeout
Fairness ==
  \A t \in Threads :
    /\ WF_vars(Acquire(t))
    /\ WF_vars(Send(t))
    /\ WF_vars(ReadHeader(t))
    /\ WF_vars(ReadBody(t))
    /\ WF_vars(Verify(t))

\* the caller threads alone, each one running on
LiveNext ==
  \/ \E t \in Threads : Call(t)
  \/ \E t \in Threads : Acquire(t)
  \/ \E t \in Threads : Send(t)
  \/ \E t \in Threads : ReadHeader(t)
  \/ \E t \in Threads : ReadBody(t)
  \/ \E t \in Threads : Verify(t)

LiveSpec == Init /\ [][LiveNext]_vars /\ Fairness

\* one caller thread; the device's frames are cut off anywhere by the timeout
WireNext ==
  \/ Call(1)
  \/ Acquire(1)
  \/ SendCut(1)
  \/ ReadHeader(1)
  \/ ReadBody(1)
  \/ Verify(1)

WireSpec == Init /\ [][WireNext]_vars

\* one caller thread; the device answers every request correctly, but some of
\* its bytes arrive after the reads of the transaction have timed out
LateNext ==
  \/ Call(1)
  \/ Acquire(1)
  \/ SendLate(1)
  \/ ReadHeader(1)
  \/ ReadBody(1)
  \/ Verify(1)
  \/ Deliver

LateSpec == Init /\ [][LateNext]_vars

(* ------------------------------------------------------------------ *)
(* Properties                                                          *)
(* ------------------------------------------------------------------ *)
Locked == {"send", "read_hdr", "read_body", "verify"}

\* t has sent its request and its reply is not validated yet
InFlight(t) == pc[t] \in {"read_hdr", "read_body", "verify"}

\* the step is the validation that ends t's transaction
Validates(t) == pc[t] = "verify" /\ pc'[t] = "idle"

CountersKept ==
  /\ rx_crc_err_count' = rx_crc_err_count
  /\ mmpsu_crc_err_count' = mmpsu_crc_err_count

\* the values by which the operations report failure
Failures == {Failure(o) : o \in Ops}

\* the reply has all the bytes its header declares
Complete(rx) == Len(rx) >= HDDR_SIZE + CRC_SIZE /\ Len(rx) = get_packet_size(rx)

\* C1: at most one transaction is in flight on the transport: no thread sends or
\* receives between another thread's send and the end of that thread's
\* validation, and whoever is on the wire holds the lock.
C1_OneTransactionInFlight ==
  /\ ~interleaved
  /\ \A t, u \in Threads : InFlight(t) /\ InFlight(u) => t = u
  /\ wire_owner # NoThread => uart_lock = wire_owner

\* a thread waits for the lock while another one is reading its reply
C1_Witness ==
  \E t, u \in Threads : t # u /\ pc[t] = "read_body" /\ pc[u] = "acquire"

\* C2: no increment of an error counter is lost: the values the reads of a
\* counter returned plus the value stored equal the number of failed
\* validations that incremented it.
C2_NoLostIncrement ==
  /\ rx_sum + rx_crc_err_count = rx_incs
  /\ mm_sum + mmpsu_crc_err_count = mm_incs

\* C3: the lock is held only by a thread inside its transaction (so it is free
\* after every exit, a raised exception included), a thread stops waiting for
\* the lock only by getting it, and every invocation terminates: each thread
\* is back outside its operation again and again, so a waiting thread gets
\* the lock and runs its transaction.
C3_EngineStaysUsable ==
  /\ [](\A t \in Threads : uart_lock = t => pc[t] \in Locked)
  /\ [][\A t \in Threads :
         pc[t] = "acquire" /\ pc'[t] # "acquire"
           => uart_lock' = t /\ pc'[t] \in Locked]_vars
  /\ \A t \in Threads : []<>(pc[t] = "idle")

\* a call has ended by raising and a later call holds the lock
C3_Witness ==
  /\ last.result.ret \in Exceptions
  /\ last.kind # "Build"
  /\ \E t \in Threads : uart_lock = t /\ pc[t] = "read_hdr"

\* what the caller is to tell apart for the reply rx to the request tx of
\* operation o: success, or the kind of the failure (with the error code of a
\* device-reported error)
Surfaced(o, tx, rx) ==
  IF Classify(tx, rx) = "Accepted"
    THEN IF Outcome(o, tx, rx).ret \in {"True", "dict"} THEN <<"Success", 0>>
         ELSE <<"Rejected", 0>>
  ELSE <<Classify(tx, rx), ErrorCode(tx, rx)>>

\* C4: the result of a transaction tells its ending from every other one: had
\* the device answered the same request so that the transaction ended
\* differently (success, timeout, checksum error, device error with its code,
\* unexpected reply), the operation would return a different result.
C4_FailureKindSurfaced ==
  \A t \in Threads :
    pc[t] = "verify" =>
      \A other \in DeviceFrames(packet[t]) \cup {<<>>} :
        (/\ Surfaced(op[t], packet[t], rpy[t]) # Surfaced(op[t], packet[t], other)
         /\ Surfaced(op[t], packet[t], rpy[t])[1] # "Rejected"
         /\ Surfaced(op[t], packet[t], other)[1] # "Rejected")
          => Outcome(op[t], packet[t], rpy[t]) # Outcome(op[t], packet[t], other)

\* C5: a reply of fewer than 6 bytes, the empty one included, makes the
\* operation report failure whatever its bytes are, and changes no counter.
C5_ShortReplyRejected ==
  [][\A t \in Threads :
       Validates(t) /\ Len(rpy[t]) < HDDR_SIZE + CRC_SIZE
         => last'.result = Failure(op[t]) /\ CountersKept]_vars

\* a 5-byte reply carrying the command byte ERROR was rejected, counters at 0
C5_Witness ==
  /\ last.len = HDDR_SIZE + 1
  /\ last.cmd = CMD_ERROR
  /\ last.result \in Failures
  /\ rx_incs = 0 /\ mm_incs = 0

\* C6: a complete reply whose checksum bytes differ from the checksum computed
\* over its payload makes the operation report failure, adds exactly 1 to the
\* receive-CRC counter and leaves the device-reported-CRC counter alone,
\* whatever its command code and payload are.
C6_ChecksumErrorCounted ==
  [][\A t \in Threads :
       (/\ Validates(t)
        /\ Complete(rpy[t])
        /\ get_checksum(rpy[t])
             # compute_crc(Slice(rpy[t], HDDR_SIZE, HDDR_SIZE + get_payload_size(rpy[t]))))
         => /\ last'.result = Failure(op[t])
            /\ rx_crc_err_count' = rx_crc_err_count + 1
            /\ mmpsu_crc_err_count' = mmpsu_crc_err_count]_vars

\* an ERROR reply with a bad checksum was counted as a receive-CRC error only
C6_Witness ==
  /\ last.kind = "ChecksumError"
  /\ last.cmd = CMD_ERROR
  /\ last.result \in Failures
  /\ rx_crc_err_count = 1 /\ mmpsu_crc_err_count = 0

\* C7: a complete reply with a good checksum, command code ERROR and payload
\* byte 0x01 makes the operation report failure, adds exactly 1 to the
\* device-reported-CRC counter and leaves the receive-CRC counter alone.
C7_DeviceCrcErrorCounted ==
  [][\A t \in Threads :
       (/\ Validates(t)
        /\ Complete(rpy[t])
        /\ check_crc(rpy[t])
        /\ At(rpy[t], CMD_IND) = CMD_ERROR
        /\ get_payload_size(rpy[t]) >= 1
        /\ At(rpy[t], HDDR_SIZE) = ERR_CRC)
         => /\ last'.result = Failure(op[t])
            /\ mmpsu_crc_err_count' = mmpsu_crc_err_count + 1
            /\ rx_crc_err_count' = rx_crc_err_count]_vars

\* a read ended in the device's CRC error, counted once
C7_Witness ==
  /\ last.kind = "DeviceError" /\ last.code = ERR_CRC
  /\ last.result = Failure("read_fields")
  /\ mmpsu_crc_err_count = 1 /\ rx_crc_err_count = 0

\* C8: a transaction that ends in a timeout, an unexpected reply or a device
\* error other than CRC returns the operation's failure value, and these, the
\* accepted replies and the calls that end before sending change no counter.
C8_OnlyChecksumFailuresCount ==
  [][/\ \A t \in Threads :
          (/\ Validates(t)
           /\ \/ Classify(packet[t], rpy[t])
                   \in {"Timeout", "UnexpectedReply", "Accepted"}
              \/ /\ Classify(packet[t], rpy[t]) = "DeviceError"
                 /\ ErrorCode(packet[t], rpy[t]) # ERR_CRC)
            => /\ CountersKept
               /\ Classify(packet[t], rpy[t]) # "Accepted"
                    => last'.result = Failure(op[t])
     /\ (calls' # calls /\ pc' = pc) => CountersKept]_vars

\* C9: a counter read returns the number of increments since the previous read
\* of that counter cleared it (or since construction) and sets the counter to
\* zero; it leaves the other counter alone.
C9_ReadAndClear ==
  [][/\ (rd_pc = "idle" /\ rd_pc' = "rx") => retval' = rx_since
     /\ (rd_pc = "idle" /\ rd_pc' = "mm") => retval' = mm_since
     /\ (rd_pc = "rx" /\ rd_pc' = "idle")
          => rx_crc_err_count' = 0 /\ mmpsu_crc_err_count' = mmpsu_crc_err_count
     /\ (rd_pc = "mm" /\ rd_pc' = "idle")
          => mmpsu_crc_err_count' = 0 /\ rx_crc_err_count' = rx_crc_err_count]_vars

\* a first read returned 1, the next read of the same counter returns 0, and
\* the other counter still holds its increment
C9_Witness ==
  /\ rx_sum = 1 /\ rx_incs = 1
  /\ rd_pc = "rx" /\ retval = 0
  /\ mmpsu_crc_err_count = 1

\* C10: a reply the transport delivered incompletely (short header or short
\* body) makes the operation return its failure value and changes no counter.
C10_IncompleteReplyFails ==
  [][\A t \in Threads :
       Validates(t) /\ Incomplete(rpy[t])
         => last'.result = Failure(op[t]) /\ CountersKept]_vars

\* the fixed payload of test_comms
TestPattern == <<222, 173, 190, 239>>

\* the payload the header of a frame declares
Payload(p) == Slice(p, HDDR_SIZE, HDDR_SIZE + get_payload_size(p))

\* the reply has at least 6 bytes, carries the checksum of its payload and the
\* command code cmd
ValidReply(rx, cmd) ==
  /\ Len(rx) >= HDDR_SIZE + CRC_SIZE
  /\ Len(rx) >= get_packet_size(rx)
  /\ get_checksum(rx) = compute_crc(Payload(rx))
  /\ At(rx, CMD_IND) = cmd

(* ------------------------------------------------------------------ *)
(* An operation run on its own: one caller, the reply the reads return *)
(* ------------------------------------------------------------------ *)
\* what the operation puts on the transport and what it returns (or raises)
\* when _read_packet returns rx
\* locked: the with block was entered; held: the lock is still held after the
\* call; rx_inc, mm_inc: what was added to the two counters
Ran(l, h, s, a, b, r) ==
  [locked |-> l, held |-> h, sent |-> s, rx_inc |-> a, mm_inc |-> b, result |-> r]

Run(o, arg, rx) ==
  LET b == Build(o, arg)
  IN  IF b.ret # "go" THEN Ran(FALSE, FALSE, <<>>, 0, 0, Result(b.ret, {}))
      ELSE IF get_packet_size(b.packet) < Len(b.packet)
        THEN Ran(TRUE, FALSE, <<>>, 0, 0, Failure(o))
      ELSE Ran(TRUE, with_exit(1, Outcome(o, b.packet, rx).ret) # NoThread,
               b.packet, verify_packet(b.packet, rx).rx_inc,
               verify_packet(b.packet, rx).mm_inc, Outcome(o, b.packet, rx))

\* the command code each operation sends
CmdOf(o) ==
  IF o = "test_comms" THEN CMD_TEST_COMMS
  ELSE IF o = "write_fields" THEN CMD_WRITE
  ELSE IF o = "read_fields" THEN CMD_READ
  ELSE CMD_READ_ALL

\* arguments of the calls run on their own
ReadNames ==
  {<<>>, <<"VOUT_SETPOINT">>, <<"VOUT_SETPOINT", "OUTPUT_ENABLED">>,
   <<"PHASE_B_DUTY_CYCLE", "PHASE_A_TEMP">>, <<"V_IN">>,
   <<"VOUT_SETPOINT", "V_IN">>}

WriteValues ==
  {<<>>, <<FV("OUTPUT_ENABLED", 1)>>, <<FV("VOUT_SETPOINT", 12000)>>,
   <<FV("PHASE_A_TEMP", 1069547520)>>, <<FV("BOGUS", 1)>>,
   <<FV("VOUT_MEASURED", 11900)>>,
   <<FV("OUTPUT_ENABLED", 1), FV("VOUT_MEASURED", 11900)>>,
   <<FV("OUTPUT_ENABLED", 1), FV("BOGUS", 1)>>,
   <<FV("BOGUS", 1), FV("OUTPUT_ENABLED", 1)>>}

\* a call: the operation, the names of a read_fields, the values of a
\* write_fields, and the reply its reads return
Invocation(o, ns, vs, r) == [op |-> o, names |-> ns, values |-> vs, rx |-> r]

ArgOf(c) == IF c.op = "read_fields" THEN c.names ELSE c.values

\* reply payloads: units of known and unknown registers, a repeated register,
\* a short unit, an echo and a wrong echo
RunPayloads(o) ==
  IF IsRead(o)
    THEN {<<>>, <<2, 224, 46, 0, 0>>, <<2, 224, 46, 0, 0, 0, 1, 0, 0, 0>>,
          <<8, 0, 0, 192, 63>>, <<9, 255, 255, 255, 255>>, <<0, 2, 0, 0, 0>>,
          <<2, 1, 0, 0, 0, 2, 2, 0, 0, 0>>, <<40, 0, 0, 0, 0>>,
          <<2, 224, 46, 0, 0, 40, 0, 0, 0, 0>>, <<2, 224, 46>>}
  ELSE IF o = "test_comms" THEN {<<222, 173, 190, 239>>, <<222, 173, 190>>}
  ELSE {<<>>, <<0, 1, 0, 0, 0>>}

RunReplies(o) ==
  {<<>>}
    \cup {Frame(c, p, k) : c \in {CmdOf(o), CMD_ERROR}, p \in RunPayloads(o),
                           k \in {GoodChk, BadChk}}

RunProbes ==
  UNION {{Probe("run", Invocation(o, ns, vs, r), FALSE, <<>>) :
            ns \in (IF o = "read_fields" THEN ReadNames ELSE {<<>>}),
            vs \in (IF o = "write_fields" THEN WriteValues ELSE {<<>>}),
            r \in RunReplies(o)} : o \in Ops}

RunOperation ==
  /\ probe.fn = "run" /\ ~probe.done
  /\ probe' = [probe EXCEPT !.done = TRUE,
                            !.out = Run(probe.arg.op, ArgOf(probe.arg), probe.arg.rx)]
  /\ UNCHANGED <<engine, port, wire, counters, reader, node>>

\* FieldData.pack_into on descriptors of every type: three of the catalog, a
\* bytes field and a field of an unrecognized type
PackFields ==
  {regmap["VOUT_SETPOINT"], regmap["OUTPUT_ENABLED"], regmap["PHASE_A_TEMP"],
   FD("RAW", 50, "bytes", TRUE), FD("TAG", 51, "str", TRUE)}

PackValues(fd) ==
  IF fd.field_type = "int" THEN {Value("int", 12000), Value("int", -1), Value("int", 0)}
  ELSE IF fd.field_type = "bool" THEN {Value("bool", 1), Value("bool", 0)}
  ELSE IF fd.field_type = "float" THEN {Value("float", 1069547520)}
  ELSE IF fd.field_type = "bytes" THEN {Value("bytes", 67305985)}
  ELSE {Value("int", 7)}

PackProbes ==
  UNION {{Probe("pack_into", [fd |-> fd, value |-> v, offset |-> k, dst |-> Zeros(12)],
                FALSE, [n |-> 0, dst |-> <<>>]) :
            v \in PackValues(fd), k \in {0, HDDR_SIZE}} : fd \in PackFields}

PackField ==
  /\ probe.fn = "pack_into" /\ ~probe.done
  /\ probe' = [probe EXCEPT
       !.done = TRUE,
       !.out = [n |-> pack_into(probe.arg.fd, probe.arg.value.v, probe.arg.offset),
                dst |-> pack_into_dst(probe.arg.fd, probe.arg.dst, probe.arg.value.v,
                                      probe.arg.offset)]]
  /\ UNCHANGED <<engine, port, wire, counters, reader, node>>

\* set_packet_size on a bare header and on a frame with other bytes set, for
\* every low byte and the high bytes at the edges of 0..65535
SizeBuffers == {<<START_BYTE, CMD_READ, 0, 0>>,
                <<START_BYTE, CMD_TEST_COMMS, 7, 9, 222, 173, 190, 239, 1, 2>>}

SizeLengths == {h * 256 + l : h \in {0, 1, 127, 128, 255}, l \in 0..255}

SizeProbes ==
  {Probe("set_packet_size", [packet |-> b, length |-> n], FALSE, <<>>) :
     b \in SizeBuffers, n \in SizeLengths}

SetSize ==
  /\ probe.fn = "set_packet_size" /\ ~probe.done
  /\ probe' = [probe EXCEPT
       !.done = TRUE,
       !.out = set_packet_size(probe.arg.packet, probe.arg.length)]
  /\ UNCHANGED <<engine, port, wire, counters, reader, node>>

\* the two indexes, looked up with the name and the register number of every
\* catalog entry
LookupProbes ==
  {Probe("lookup", MMPSU_V2_REGS[i], FALSE, <<>>) : i \in DOMAIN MMPSU_V2_REGS}

Lookup ==
  /\ probe.fn = "lookup" /\ ~probe.done
  /\ probe' = [probe EXCEPT
       !.done = TRUE,
       !.out = <<regmap[probe.arg.name], regmap_by_num[probe.arg.reg]>>]
  /\ UNCHANGED <<engine, port, wire, counters, reader, node>>

\* the functions of the engine and of mmpsu_base.py, each applied to one
\* input drawn from its set
CodecInit ==
  /\ EngineInit
  /\ \/ probe \in RunProbes
     \/ probe \in PackProbes
     \/ probe \in SizeProbes
     \/ probe \in LookupProbes

CodecNext ==
  \/ RunOperation
  \/ PackField
  \/ SetSize
  \/ Lookup

CodecSpec == CodecInit /\ [][CodecNext]_vars

\* the catalog entry the specification's lookups name
ByName(n) == CHOOSE i \in DOMAIN MMPSU_V2_REGS : MMPSU_V2_REGS[i].name = n
ByReg(r) == CHOOSE i \in DOMAIN MMPSU_V2_REGS : MMPSU_V2_REGS[i].reg = r

\* a 4-byte value region decoded per type: Int32 little-endian two's
\* complement, Bool from the first byte, Float32 named by its bit pattern
Decoded(ty, b) ==
  LET word == IF b[4] < 128
                THEN b[1] + 256 * b[2] + 65536 * b[3] + 16777216 * b[4]
                ELSE 0 - ((255 - b[1]) + 256 * (255 - b[2]) + 65536 * (255 - b[3])
                            + 16777216 * (255 - b[4])) - 1
  IN  IF ty = "bool" THEN Value("bool", IF b[1] = 0 THEN 0 ELSE 1)
      ELSE Value(ty, word)

\* the payload is a sequence of 5-byte units, each of a catalog register
Units(p) == [i \in 1..(Len(p) \div 5) |-> SubSeq(p, 5 * i - 4, 5 * i)]
WellFormed(p) == Len(p) % 5 = 0 /\ \A i \in DOMAIN Units(p) : Units(p)[i][1] \in RegNums

\* name -> value of the units, a later unit of a register replacing an earlier one
Mapping(p) ==
  {<<MMPSU_V2_REGS[ByReg(Units(p)[i][1])].name,
     Decoded(MMPSU_V2_REGS[ByReg(Units(p)[i][1])].field_type, SubSeq(Units(p)[i], 2, 5))>> :
     i \in {j \in DOMAIN Units(p) :
              \A k \in DOMAIN Units(p) : k > j => Units(p)[k][1] # Units(p)[j][1]}}

\* the frame has the command code cmd and the payload pl, and nothing else
\* but the checksum
Carries(f, cmd, pl) ==
  /\ Len(f) = HDDR_SIZE + Len(pl) + CRC_SIZE
  /\ At(f, 0) = START_BYTE
  /\ At(f, CMD_IND) = cmd
  /\ get_payload_size(f) = Len(pl)
  /\ Payload(f) = pl

\* C12: read_fields(names) sends a READ frame whose payload is the register
\* number of each name in input order (frame length 4+len(names)+2) and
\* read_all_fields sends a READ_ALL frame without payload; when the reply
\* validates and its payload is a sequence of 5-byte units, the result maps the
\* catalog name of each unit's register to the value decoded per the field's
\* type.
C12_ReadFieldsCodec ==
  (probe.fn = "run" /\ probe.done /\ IsRead(probe.arg.op)
     /\ \A i \in DOMAIN probe.arg.names : probe.arg.names[i] \in RegNames)
    => /\ probe.arg.op = "read_fields"
            => Carries(probe.out.sent, CMD_READ,
                       [i \in DOMAIN probe.arg.names |->
                          MMPSU_V2_REGS[ByName(probe.arg.names[i])].reg])
       /\ probe.arg.op = "read_all_fields"
            => Carries(probe.out.sent, CMD_READ_ALL, <<>>)
       /\ (ValidReply(probe.arg.rx, CmdOf(probe.arg.op))
             /\ WellFormed(Payload(probe.arg.rx)))
            => probe.out.result = Result("dict", Mapping(Payload(probe.arg.rx)))

\* read_fields(['VOUT_SETPOINT']) sent payload 02 in a frame of 7 bytes and
\* decoded the reply payload 02 E0 2E 00 00 to {VOUT_SETPOINT: 12000}
C12_Witness ==
  /\ probe.fn = "run" /\ probe.done
  /\ probe.arg.op = "read_fields" /\ probe.arg.names = <<"VOUT_SETPOINT">>
  /\ Len(probe.out.sent) = 7 /\ Payload(probe.out.sent) = <<2>>
  /\ probe.arg.rx = Frame(CMD_READ, <<2, 224, 46, 0, 0>>, GoodChk)
  /\ probe.out.result = Result("dict", {<<"VOUT_SETPOINT", Value("int", 12000)>>})

\* C11: test_comms sends a TEST_COMMS frame with the payload DE AD BE EF and
\* returns True when the reply has at least 6 bytes, a valid checksum, the
\* command code TEST_COMMS and a payload equal to the one sent; for every
\* other reply it returns False.
C11_TestCommsEcho ==
  [][\A t \in Threads :
       (Validates(t) /\ op[t] = "test_comms")
         => /\ At(packet[t], CMD_IND) = CMD_TEST_COMMS
            /\ Payload(packet[t]) = TestPattern
            /\ last'.result =
                 IF ValidReply(rpy[t], CMD_TEST_COMMS) /\ Payload(rpy[t]) = TestPattern
                   THEN Result("True", {})
                   ELSE Result("False", {})]_vars

\* a value as 4 little-endian bytes
Bytes4(v) == <<v % 256, (v \div 256) % 256, (v \div 65536) % 256, (v \div 16777216) % 256>>

\* the units of a WRITE payload: register number, then the 4-byte value
RECURSIVE Encoded(_)
Encoded(vs) ==
  IF vs = <<>> THEN <<>>
  ELSE <<MMPSU_V2_REGS[ByName(Head(vs).name)].reg>> \o Bytes4(Head(vs).value)
         \o Encoded(Tail(vs))

\* C13: write_fields(values) sends a WRITE frame whose payload is, field by
\* field in the order of the mapping, the register number and the 4-byte
\* encoding of the value (5 bytes per field), and it returns True exactly when
\* the reply passes validation.
C13_WriteFieldsCodec ==
  (probe.fn = "run" /\ probe.done /\ probe.arg.op = "write_fields"
     /\ \A i \in DOMAIN probe.arg.values : probe.arg.values[i].name \in RegNames)
    => /\ Carries(probe.out.sent, CMD_WRITE, Encoded(probe.arg.values))
       /\ Len(Payload(probe.out.sent)) = 5 * Len(probe.arg.values)
       /\ probe.out.result =
            IF ValidReply(probe.arg.rx, CMD_WRITE) THEN Result("True", {})
            ELSE Result("False", {})

\* the number of bytes the formats of the supplied fields take
RECURSIVE FormatBytes(_)
FormatBytes(vs) ==
  IF vs = <<>> THEN 0
  ELSE calcsize(regmap[Head(vs).name], 4) + FormatBytes(Tail(vs))

\* C14: write_fields whose fields pack to a number of bytes other than
\* 5*len(values) returns its failure value, writes no byte to the transport,
\* does not take the lock and changes no counter.
C14_EncodingErrorReported ==
  (/\ probe.fn = "run" /\ probe.done /\ probe.arg.op = "write_fields"
   /\ \A i \in DOMAIN probe.arg.values : probe.arg.values[i].name \in RegNames
   /\ FormatBytes(probe.arg.values) # 5 * Len(probe.arg.values))
    => /\ probe.out.result = Result("False", {})
       /\ probe.out.sent = <<>>
       /\ ~probe.out.locked
       /\ probe.out.rx_inc = 0 /\ probe.out.mm_inc = 0

\* the call names a field the catalog lacks
NamesUnknown(c) ==
  \/ c.op = "read_fields" /\ \E i \in DOMAIN c.names : c.names[i] \notin RegNames
  \/ c.op = "write_fields" /\ \E i \in DOMAIN c.values : c.values[i].name \notin RegNames

\* a unit of the payload starts with a register number the catalog lacks
UnitUnknown(p) ==
  \E i \in 0..(Len(p) - 1) : i % 5 = 0 /\ At(p, i) \notin RegNums

\* C15: read_fields or write_fields naming a field the catalog lacks fails on
\* the lookup (KeyError) before the lock is taken and before a byte is sent; a
\* validated READ or READ_ALL reply with a register number the catalog lacks
\* fails on the lookup without a partial mapping; the counters are unchanged
\* and the lock is free afterwards.
C15_LookupMissSurfaced ==
  (probe.fn = "run" /\ probe.done)
    => /\ NamesUnknown(probe.arg)
            => /\ probe.out.result = Result("KeyError", {})
               /\ probe.out.sent = <<>> /\ ~probe.out.locked /\ ~probe.out.held
               /\ probe.out.rx_inc = 0 /\ probe.out.mm_inc = 0
       /\ (/\ IsRead(probe.arg.op)
           /\ ~NamesUnknown(probe.arg)
           /\ ValidReply(probe.arg.rx, CmdOf(probe.arg.op))
           /\ UnitUnknown(Payload(probe.arg.rx)))
            => /\ probe.out.result = Result("KeyError", {})
               /\ ~probe.out.held
               /\ probe.out.rx_inc = 0 /\ probe.out.mm_inc = 0

\* C16: for a field of type int, float, bool or bytes, pack_into writes the
\* register number and the 4-byte value at the offset, 5 bytes in all, returns
\* 5 and leaves the rest of the buffer alone, and unpack_from at offset+1 of the
\* packed bytes returns the value packed.
C16_PackUnpackRoundTrip ==
  (/\ probe.fn = "pack_into" /\ probe.done
   /\ probe.arg.fd.field_type \in {"int", "float", "bool", "bytes"})
    => /\ probe.out.n = 5
       /\ Len(probe.out.dst) = Len(probe.arg.dst)
       /\ \A i \in 0..(Len(probe.arg.dst) - 1) :
            (i < probe.arg.offset \/ i >= probe.arg.offset + 5)
              => At(probe.out.dst, i) = At(probe.arg.dst, i)
       /\ At(probe.out.dst, probe.arg.offset) = probe.arg.fd.reg
       /\ unpack_from(probe.arg.fd, probe.out.dst, probe.arg.offset + 1) = probe.arg.value

\* C17: on a buffer of at least 4 bytes and for n in 0..65535, set_packet_size
\* followed by get_payload_size returns n, kept in bytes 2 and 3 low byte
\* first; no other byte of the buffer changes, and get_packet_size is
\* get_payload_size + 4 + 2.
C17_PacketSizeRoundTrip ==
  (/\ probe.fn = "set_packet_size" /\ probe.done
   /\ Len(probe.arg.packet) >= 4 /\ probe.arg.length \in 0..65535)
    => /\ get_payload_size(probe.out) = probe.arg.length
       /\ At(probe.out, 2) = probe.arg.length % 256
       /\ At(probe.out, 3) = probe.arg.length \div 256
       /\ Len(probe.out) = Len(probe.arg.packet)
       /\ \A i \in 0..(Len(probe.arg.packet) - 1) :
            i \notin {2, 3} => At(probe.out, i) = At(probe.arg.packet, i)
       /\ get_packet_size(probe.out) = get_payload_size(probe.out) + 4 + 2

\* the size 65535 was set on a frame whose size bytes held 7 and 9
C17_Witness ==
  /\ probe.fn = "set_packet_size" /\ probe.done
  /\ probe.arg.length = 65535
  /\ At(probe.arg.packet, 2) = 7 /\ At(probe.arg.packet, 3) = 9
  /\ At(probe.out, 2) = 255 /\ At(probe.out, 3) = 255
  /\ get_packet_size(probe.out) = 65541

\* C18: in MMPSU_V2_REGS the names are pairwise distinct and the register
\* numbers are pairwise distinct; the index by name and the index by register
\* both return the descriptor d for every descriptor d of the catalog, the
\* register of a name leads back to that name, and both indexes have the size
\* of the catalog.
C18_CatalogIndexesConsistent ==
  /\ \A i, j \in DOMAIN MMPSU_V2_REGS :
       i # j => /\ MMPSU_V2_REGS[i].name # MMPSU_V2_REGS[j].name
                /\ MMPSU_V2_REGS[i].reg # MMPSU_V2_REGS[j].reg
  /\ Cardinality(DOMAIN regmap) = Len(MMPSU_V2_REGS)
  /\ Cardinality(DOMAIN regmap_by_num) = Len(MMPSU_V2_REGS)
  /\ \A x \in RegNames : regmap_by_num[regmap[x].reg].name = x
  /\ (probe.fn = "lookup" /\ probe.done)
       => /\ probe.out[1] = probe.arg
          /\ probe.out[2] = probe.arg

\* PHASE_A_TEMP, register 8, listed after register 9, was looked up both ways
C18_Witness ==
  /\ probe.fn = "lookup" /\ probe.done
  /\ probe.arg.name = "PHASE_A_TEMP" /\ probe.arg.reg = 8
  /\ probe.out[1].reg = 8
  /\ probe.out[2].name = "PHASE_A_TEMP"

\* the transport calls an invocation may have made when it stands at each place
SentOnce(t) ==
  /\ Len(io[t]) >= 1
  /\ io[t][1] = Io("write", Len(packet[t]), Len(packet[t]))

HeaderRead(t) ==
  /\ Len(io[t]) >= 2
  /\ io[t][2].call = "read"
  /\ io[t][2].size = 4

BodyRead(t) ==
  /\ Len(io[t]) = 3
  /\ io[t][2].got = 4
  /\ io[t][3].call = "read"
  /\ io[t][3].size = At(rpy[t], PAYLOAD_LEN_L_IND) + 256 * At(rpy[t], PAYLOAD_LEN_H_IND) + 2
  /\ Len(rpy[t]) = 4 + io[t][3].got

\* C19: an invocation makes, while it holds the lock, at most one send of its
\* request frame, then one read of exactly 4 bytes, then, only if 4 header
\* bytes arrived, one read of exactly payload_length(header) + 2 bytes; the
\* validation ends the invocation whatever its verdict, with no further send
\* and no further read, and a thread sends again only in a new invocation.
C19_OneSendTwoStageReadNoRetry ==
  /\ [](\A t \in Threads :
          /\ pc[t] \in {"idle", "acquire", "send"} => io[t] = <<>>
          /\ pc[t] = "read_hdr" => (SentOnce(t) /\ Len(io[t]) = 1)
          /\ pc[t] = "read_body" =>
               (SentOnce(t) /\ HeaderRead(t) /\ Len(io[t]) = 2 /\ io[t][2].got = 4)
          /\ pc[t] = "verify" =>
               /\ SentOnce(t)
               /\ HeaderRead(t)
               /\ IF io[t][2].got = 4 THEN BodyRead(t)
                                      ELSE Len(io[t]) = 2 /\ rpy[t] = <<>>)
  /\ [][\A t \in Threads :
          /\ io'[t] # io[t] =>
               \/ uart_lock = t /\ uart_lock' = t /\ Len(io'[t]) = Len(io[t]) + 1
                    /\ SubSeq(io'[t], 1, Len(io[t])) = io[t]
               \/ Validates(t) /\ io'[t] = <<>>
          /\ Validates(t) =>
               /\ pc'[t] = "idle"
               /\ rxbuf' = rxbuf
               /\ last'.result = Outcome(op[t], packet[t], rpy[t])
          /\ (pc[t] = "idle" /\ pc'[t] # "idle") => calls' = calls + 1]_vars

\* a transaction whose reply failed validation ends after one send and two reads
C19_Witness ==
  /\ pc[1] = "verify"
  /\ Len(io[1]) = 3
  /\ io[1][3].got < io[1][3].size
  /\ Outcome(op[1], packet[1], rpy[1]) \in Failures

\* a is the beginning of b
IsPrefix(a, b) == Len(a) <= Len(b) /\ SubSeq(b, 1, Len(a)) = a

\* C20: the reply a transaction validates and decodes consists of bytes the
\* device sent in response to that transaction's own request; bytes that
\* arrived after an earlier transaction timed out, or that an earlier
\* transaction left unread, are never taken as the reply of a later one.
C20_ReplyBelongsToRequest ==
  \A t \in Threads :
    pc[t] = "verify" => IsPrefix(rpy[t], answered[t])

\* the names a result maps
Keys(m) == {kv[1] : kv \in m}

\* C21: whenever read_fields(names) returns a successful (non-failure) result,
\* the key set of the returned mapping equals the set of the requested names,
\* whatever reply the device sent.
C21_ReadKeysAreRequestedNames ==
  (probe.fn = "run" /\ probe.done /\ probe.arg.op = "read_fields"
     /\ probe.out.result.ret = "dict"
     /\ probe.out.result # Failure("read_fields"))
    => Keys(probe.out.result.map) =
         {probe.arg.names[i] : i \in DOMAIN probe.arg.names}

\* the call names a catalog field whose descriptor is not writable
NamesNonWritable(c) ==
  \E i \in DOMAIN c.values :
    /\ c.values[i].name \in RegNames
    /\ ~MMPSU_V2_REGS[ByName(c.values[i].name)].writable

STATUS_FIELDS ==
  <<"OUTPUT_ENABLED", "VOUT_MEASURED", "VOUT_SETPOINT", "PHASES_PRESENT",
    "PHASES_ENABLED",
    "PHASE_A_DUTY_CYCLE", "PHASE_A_CURRENT", "PHASE_A_CURRENT_LIMIT", "PHASE_A_TEMP",
    "PHASE_B_DUTY_CYCLE", "PHASE_B_CURRENT", "PHASE_B_CURRENT_LIMIT", "PHASE_B_TEMP",
    "PHASE_C_DUTY_CYCLE", "PHASE_C_CURRENT", "PHASE_C_CURRENT_LIMIT", "PHASE_C_TEMP",
    "PHASE_D_DUTY_CYCLE", "PHASE_D_CURRENT", "PHASE_D_CURRENT_LIMIT", "PHASE_D_TEMP",
    "PHASE_E_DUTY_CYCLE", "PHASE_E_CURRENT", "PHASE_E_CURRENT_LIMIT", "PHASE_E_TEMP",
    "PHASE_F_DUTY_CYCLE", "PHASE_F_CURRENT", "PHASE_F_CURRENT_LIMIT", "PHASE_F_TEMP",
    "PHASES_IN_OVERTEMP", "COMMS_ERROR_COUNT",
    "V_IN", "I_IN", "V_12P0", "I_12P0", "V_5P0", "I_5P0">>

MIN_VOUT == F("num", 0)
MAX_VOUT == F("num", 240000)

\* a >= b and a <= b on Python floats: every comparison with nan is False
ge(a, b) ==
  IF a.k = "nan" \/ b.k = "nan" THEN FALSE
  ELSE IF a.k = "inf" \/ b.k = "-inf" THEN TRUE
  ELSE IF a.k = "-inf" \/ b.k = "inf" THEN FALSE
  ELSE a.v >= b.v

le(a, b) == ge(b, a)

clamp_unbounded_above(value, min_val, max_val) ==
  IF ge(value, min_val) THEN value ELSE min_val

clamp(value, min_val, max_val) ==
  IF ge(value, min_val)
    THEN IF le(value, max_val) THEN value ELSE max_val
    ELSE min_val

\* int(setpt*1000.0): millivolts, truncated toward zero; int() raises on nan
\* and on an infinity
int_raises(x) == x.k # "num"
int_mV(x) == IF x.v >= 0 THEN x.v \div 10 ELSE 0 - ((0 - x.v) \div 10)

\* request.setpoint of SetFloat32 and request.data of SetBool
Setpoints ==
  {F("num", x) : x \in {-50000, -1, 0, 5, 15, 120000, 123456, 239999, 240000,
                        240001, 1000000}}
    \cup {F("nan", 0), F("inf", 0), F("-inf", 0)}

Requests(c) ==
  IF c = "set_output_voltage" THEN Setpoints
  ELSE IF c = "set_output_enabled" THEN {F("bool", 0), F("bool", 1)}
  ELSE {F("timer", 0)}

\* the executor starts the callback c
Invoke(c) ==
  /\ node_pc[c] = "idle"
  /\ \E r \in Requests(c) : request' = [request EXCEPT ![c] = r]
  /\ node_pc' = [node_pc EXCEPT ![c] = "acquire"]
  /\ UNCHANGED <<engine, port, wire, counters, reader, probe, mmpsu_lock, written>>

\* self._mmpsu_lock.acquire(): blocks while another callback holds the lock
NodeAcquire(c) ==
  /\ node_pc[c] = "acquire"
  /\ mmpsu_lock = NoCallback
  /\ mmpsu_lock' = c
  /\ node_pc' = [node_pc EXCEPT ![c] = "call"]
  /\ UNCHANGED <<engine, port, wire, counters, reader, probe, request, written>>

\* the operation the callback calls and its argument
OpOf(c) == IF c = "status_timer" THEN "read_fields" ELSE "write_fields"

ArgFor(c, r) ==
  IF c = "status_timer" THEN STATUS_FIELDS
  ELSE IF c = "set_output_enabled" THEN <<FV("OUTPUT_ENABLED", r.v)>>
  ELSE <<FV("VOUT_SETPOINT", int_mV(clamp(r, MIN_VOUT, MAX_VOUT)))>>

\* the engine call and the statement after it: release() is reached when the
\* call returns, and skipped when the call raises
EngineCall(c) ==
  /\ node_pc[c] = "call"
  /\ IF c = "set_output_voltage" /\ int_raises(clamp(request[c], MIN_VOUT, MAX_VOUT))
       THEN /\ mmpsu_lock' = c
            /\ UNCHANGED <<written, counters>>
       ELSE \E rx \in RunReplies(OpOf(c)) :
              LET r == Run(OpOf(c), ArgFor(c, request[c]), rx)
              IN  /\ mmpsu_lock' = IF r.result.ret \in Exceptions THEN c ELSE NoCallback
                  /\ written' = IF c = "status_timer" THEN written
                                ELSE Wrote(c, request[c], ArgFor(c, request[c])[1].name,
                                           ArgFor(c, request[c])[1].value)
                  /\ rx_crc_err_count' = rx_crc_err_count + r.rx_inc
                  /\ mmpsu_crc_err_count' = mmpsu_crc_err_count + r.mm_inc
                  /\ rx_incs' = rx_incs + r.rx_inc
                  /\ mm_incs' = mm_incs + r.mm_inc
                  /\ rx_since' = rx_since + r.rx_inc
                  /\ mm_since' = mm_since + r.mm_inc
  /\ node_pc' = [node_pc EXCEPT ![c] = "idle"]
  /\ request' = [request EXCEPT ![c] = NoRequest]
  /\ UNCHANGED <<engine, port, wire, reader, probe>>

NodeNext ==
  \/ \E c \in Callbacks : Invoke(c)
  \/ \E c \in Callbacks : NodeAcquire(c)
  \/ \E c \in Callbacks : EngineCall(c)

NodeSpec == Init /\ [][NodeNext]_vars

\* C22: the device lock _mmpsu_lock taken by status_timer_callback,
\* set_output_enabled_callback and set_output_voltage_callback is released when
\* the callback's engine call ends, whether the call succeeds, reports failure
\* or raises, so a callback that waits for the lock is never left waiting for
\* a callback that has ended.
C22_DeviceLockReleased ==
  [][\A c \in Callbacks :
       (node_pc[c] = "call" /\ node_pc'[c] = "idle") => mmpsu_lock' = NoCallback]_vars

\* C24: the value set_output_voltage_callback hands to write_field for
\* VOUT_SETPOINT is v with 0 <= v <= 24000 (millivolts) for every requested
\* setpoint: the request itself when it lies in [MIN_VOUT, MAX_VOUT], 0 when it
\* is below and 24000 when it is above; and _clamp(value, min, max) with
\* min <= max returns value when min <= value <= max, min when value < min
\* and max when value > max.
C24_SetpointClamped ==
  /\ written.cb = "set_output_voltage" =>
       /\ written.name = "VOUT_SETPOINT"
       /\ 0 <= written.value /\ written.value <= 24000
       /\ written.req.k = "num" =>
            written.value = IF written.req.v < 0 THEN 0
                            ELSE IF written.req.v > 240000 THEN 24000
                            ELSE written.req.v \div 10
       /\ written.req.k = "inf" => written.value = 24000
       /\ written.req.k = "-inf" => written.value = 0
  /\ \A x \in {-3, 0, 1, 7, 8, 500} : \A lo \in {-1, 0, 7} : \A hi \in {7, 8} :
       clamp(F("num", x), F("num", lo), F("num", hi)).v =
         IF x < lo THEN lo ELSE IF x > hi THEN hi ELSE x

\* a request of 100 V was served and 24000 mV handed to write_field
C24_Witness ==
  /\ written.cb = "set_output_voltage"
  /\ written.req = F("num", 1000000)
  /\ written.value = 24000
  /\ node_pc["set_output_voltage"] = "idle"

====
